---- MODULE Spec2Model ----
(***************************************************************************)
(* SignLink.API: hand-region extraction (utils/mediapipe_utils.py), the    *)
(* /webcam/ws handlers (routers/translate_webcam.py, translate_webcam.py), *)
(* the /settings endpoints (routers/settings.py), the /auth endpoints      *)
(* (routers/auth.py), the image and video upload handlers                  *)
(* (translate_image.py, app.py, routers/translate_video.py) and the        *)
(* session dependency get_db (database.py).                                *)
(***************************************************************************)
EXTENDS Integers, Sequences, FiniteSets, TLC

VARIABLES
    \* hand-region extraction
    cropFrame,      \* the frame handed to crop_hand_from_frame: [w, h, lm]
    cropPc,         \* "call" before the call, "done" after it
    cropOut,        \* what the call returned: [kind, box]
    \* /webcam/ws handler
    variant,        \* which revision of websocket_endpoint serves the route
    pc,             \* the coroutine's position
    inbox,          \* messages the client sent that the handler has not received
    clientClosed,   \* the client closed the connection
    outbox,         \* messages the handler sent, in order
    cur,            \* the message being handled and what was computed for it
    exc,            \* the exception that ended the handler's try block, if any
    logged,         \* number of logger.error calls
    \* /settings endpoints
    USER_SETTINGS,  \* rows of the USER_SETTINGS table
    req,            \* per database session: the request it serves
    lastWrite,      \* per user: who wrote last (POST or PUT) and the flags it was given
    \* /auth endpoints
    USER_INFORMATION, \* rows of the USER_INFORMATION table
    authReq,        \* per database session: the /auth request it serves
    signedUp,       \* per username: the password and id of its successful signup
    \* image and video upload endpoints
    up,             \* the upload request in progress
    infCalls,       \* the images handed to the inference call, in order
    tmpFiles,       \* temporary files that exist on disk
    \* get_db
    dbReq,          \* per request: its position and the session get_db gave it
    sessionOpen,    \* sessions created by SessionLocal() and not yet closed
    created,        \* number of SessionLocal() calls so far
    \* the module-level hand detector of the /webcam/ws modules
    hands,          \* what the detector tracks from the frames it processed
    conn,           \* per connection: the last frame handled and its reply
    \* the crop box of preprocess_with_mediapipe
    preImage,       \* the image and the landmarks detected in it: [w, h, lm]
    preCrop         \* the box computed and the slice taken: [pc, box, slice]

cropVars == <<cropFrame, cropPc, cropOut>>
wsVars == <<variant, pc, inbox, clientClosed, outbox, cur, exc, logged>>
dbVars == <<USER_SETTINGS, req, lastWrite>>
authVars == <<USER_INFORMATION, authReq, signedUp>>
upVars == <<up, infCalls, tmpFiles>>
sessVars == <<dbReq, sessionOpen, created>>
trackVars == <<hands, conn>>
preVars == <<preImage, preCrop>>
moreVars == <<trackVars, preVars>>
extVars == <<authVars, upVars, sessVars, moreVars>>
vars == <<cropVars, wsVars, dbVars, extVars>>

----------------------------------------------------------------------------
(* Bounds of the model *)

\* normalized landmark coordinates are the fractions n / LmDen
LmDen == 4
\* largest number of landmark points of a modelled hand
MaxLm == 2

\* numerators of the modelled coordinates: one step outside [0, 1] on each side
LmCoords == -1 .. (LmDen + 1)
\* frame widths and heights (pixels)
FrameDims == {1, 30, 100}

----------------------------------------------------------------------------
(* utils/mediapipe_utils.py *)

Max2(a, b) == IF a >= b THEN a ELSE b
Min2(a, b) == IF a <= b THEN a ELSE b
SetMin(S) == CHOOSE a \in S : \A b \in S : a <= b
SetMax(S) == CHOOSE a \in S : \A b \in S : a >= b

\* int(x): truncation toward zero of the quotient n / d, d > 0
IntTrunc(n, d) == IF n >= 0 THEN n \div d ELSE -((-n) \div d)

pad == 20

\* `if not results.multi_hand_landmarks`
NoHandDetected(lm) == lm = {}

LandmarkBoxMutFirstLandmark(frame) ==
    LET p == CHOOSE q \in frame.lm : TRUE
    IN  [x_min |-> IntTrunc(p[1] * frame.w, LmDen),
         x_max |-> IntTrunc(p[1] * frame.w, LmDen),
         y_min |-> IntTrunc(p[2] * frame.h, LmDen),
         y_max |-> IntTrunc(p[2] * frame.h, LmDen)]

\* bounding box from the landmark extrema, scaled to pixels
LandmarkBox(frame) ==
    LET xs == {p[1] : p \in frame.lm}
        ys == {p[2] : p \in frame.lm}
    IN  [x_min |-> IntTrunc(SetMin(xs) * frame.w, LmDen),
         x_max |-> IntTrunc(SetMax(xs) * frame.w, LmDen),
         y_min |-> IntTrunc(SetMin(ys) * frame.h, LmDen),
         y_max |-> IntTrunc(SetMax(ys) * frame.h, LmDen)]

PadAndClampMutNoUpperClamp(b, w, h) ==
    [x_min |-> Max2(0, b.x_min - pad),
     y_min |-> Max2(0, b.y_min - pad),
     x_max |-> b.x_max + pad,
     y_max |-> b.y_max + pad]

\* padding and clamping
PadAndClamp(b, w, h) ==
    [x_min |-> Max2(0, b.x_min - pad),
     y_min |-> Max2(0, b.y_min - pad),
     x_max |-> Min2(w, b.x_max + pad),
     y_max |-> Min2(h, b.y_max + pad)]

DegenerateMutNever(b) == FALSE

\* `if x_max <= x_min or y_max <= y_min`
Degenerate(b) == b.x_max <= b.x_min \/ b.y_max <= b.y_min

ZeroBox == [x_min |-> 0, y_min |-> 0, x_max |-> 0, y_max |-> 0]
NoRegion(b) == [kind |-> "None", box |-> b]
Cropped(b) == [kind |-> "crop", box |-> b]

crop_hand_from_frameMutWholeFrame(frame) ==
    IF NoHandDetected(frame.lm)
    THEN Cropped([x_min |-> 0, y_min |-> 0, x_max |-> frame.w, y_max |-> frame.h])
    ELSE LET b == PadAndClamp(LandmarkBox(frame), frame.w, frame.h)
         IN  IF Degenerate(b) THEN NoRegion(b) ELSE Cropped(b)

\* the value returned: None, or the image cropped to the box
crop_hand_from_frame(frame) ==
    IF NoHandDetected(frame.lm)
    THEN NoRegion(ZeroBox)
    ELSE LET b == PadAndClamp(LandmarkBox(frame), frame.w, frame.h)
         IN  IF Degenerate(b) THEN NoRegion(b) ELSE Cropped(b)

----------------------------------------------------------------------------
(* Specification of the extraction alone: every frame and landmark set *)

LmPoints == LmCoords \X LmCoords
RECURSIVE SetsUpTo(_)
SetsUpTo(k) ==
    IF k = 0 THEN {{}}
    ELSE LET smaller == SetsUpTo(k - 1)
         IN  smaller \cup {S \cup {p} : S \in smaller, p \in LmPoints}
\* no hand ({}), or a hand of 1 .. MaxLm landmark points
LandmarkSets == SetsUpTo(MaxLm)
Frames == [w : FrameDims, h : FrameDims, lm : LandmarkSets]

WsIdle ==
    /\ variant = "none"
    /\ pc = "off"
    /\ inbox = <<>>
    /\ clientClosed = FALSE
    /\ outbox = <<>>
    /\ cur = [kind |-> "none"]
    /\ exc = "none"
    /\ logged = 0

DbIdle ==
    /\ USER_SETTINGS = {}
    /\ req = <<>>
    /\ lastWrite = <<>>

AuthIdle ==
    /\ USER_INFORMATION = {}
    /\ authReq = <<>>
    /\ signedUp = <<>>

UpIdle ==
    /\ up = [pc |-> "off"]
    /\ infCalls = <<>>
    /\ tmpFiles = {}

SessIdle ==
    /\ dbReq = <<>>
    /\ sessionOpen = {}
    /\ created = 0

TrackIdle ==
    /\ hands = "off"
    /\ conn = <<>>

PreIdle ==
    /\ preImage = [w |-> 1, h |-> 1, lm |-> {}]
    /\ preCrop = [pc |-> "off"]

CropIdle ==
    /\ cropFrame = [w |-> 1, h |-> 1, lm |-> {}]
    /\ cropPc = "off"
    /\ cropOut = NoRegion(ZeroBox)

InitCrop ==
    /\ cropFrame \in Frames
    /\ cropPc = "call"
    /\ cropOut = NoRegion(ZeroBox)
    /\ WsIdle
    /\ DbIdle
    /\ AuthIdle /\ UpIdle /\ SessIdle
    /\ TrackIdle /\ PreIdle

CropNoHand ==
    /\ cropPc = "call"
    /\ NoHandDetected(cropFrame.lm)
    /\ cropOut' = crop_hand_from_frame(cropFrame)
    /\ cropPc' = "done"
    /\ UNCHANGED <<cropFrame, wsVars, dbVars, extVars>>

CropHand ==
    /\ cropPc = "call"
    /\ ~NoHandDetected(cropFrame.lm)
    /\ cropOut' = crop_hand_from_frame(cropFrame)
    /\ cropPc' = "done"
    /\ UNCHANGED <<cropFrame, wsVars, dbVars, extVars>>

NextCrop == CropNoHand \/ CropHand

SpecCrop == InitCrop /\ [][NextCrop]_vars

----------------------------------------------------------------------------
(* Claims about the extraction *)

CropReturned == cropPc = "done" /\ cropOut.kind = "crop"
HandGiven == ~NoHandDetected(cropFrame.lm)

\* C1: for every frame size and every landmark set with at least one point,
\* crop_hand_from_frame returns None or crops a box with x_min <= x_max and
\* y_min <= y_max after padding and clamping.
C1_BoxOrderedOrNone ==
    (cropPc = "done" /\ HandGiven) =>
        \/ cropOut.kind = "None"
        \/ /\ cropOut.kind = "crop"
           /\ cropOut.box.x_min <= cropOut.box.x_max
           /\ cropOut.box.y_min <= cropOut.box.y_max

\* C1 witness: a hand of a single landmark point (equal extrema) is cropped.
C1_Witness ==
    /\ CropReturned
    /\ Cardinality(cropFrame.lm) = 1
    /\ cropOut.box.x_min < cropOut.box.x_max

\* C2: with no detected hand the extractor returns None, never a box.
C2_NoHandNoRegion ==
    (cropPc = "done" /\ ~HandGiven) => cropOut = NoRegion(ZeroBox)

\* C2 witness: a 100-pixel-wide frame without a hand was processed.
C2_Witness ==
    /\ cropPc = "done"
    /\ ~HandGiven
    /\ cropFrame.w = 100
    /\ cropOut.kind = "None"

\* C3 as stated: every coordinate of the box used for the crop lies in
\* [0, width) horizontally and [0, height) vertically.
C3_HalfOpenClamp ==
    CropReturned =>
        /\ 0 <= cropOut.box.x_min /\ cropOut.box.x_min < cropFrame.w
        /\ 0 <= cropOut.box.x_max /\ cropOut.box.x_max < cropFrame.w
        /\ 0 <= cropOut.box.y_min /\ cropOut.box.y_min < cropFrame.h
        /\ 0 <= cropOut.box.y_max /\ cropOut.box.y_max < cropFrame.h

\* C3 amended: after the 20-pixel padding the lower coordinates are clamped
\* to >= 0 and the upper ones to <= width / <= height; a box with max <= min
\* on either axis is rejected, so a box that is used satisfies
\* 0 <= x_min < x_max <= width and 0 <= y_min < y_max <= height.
C3_ClosedClamp ==
    (cropPc = "done" /\ HandGiven) =>
        /\ cropOut.box.x_min >= 0
        /\ cropOut.box.y_min >= 0
        /\ cropOut.box.x_max <= cropFrame.w
        /\ cropOut.box.y_max <= cropFrame.h
        /\ cropOut.box.x_min >= LandmarkBox(cropFrame).x_min - 20
        /\ cropOut.box.x_max <= LandmarkBox(cropFrame).x_max + 20
        /\ cropOut.box.y_min >= LandmarkBox(cropFrame).y_min - 20
        /\ cropOut.box.y_max <= LandmarkBox(cropFrame).y_max + 20
        /\ (cropOut.kind = "None") <=>
               (\/ cropOut.box.x_max <= cropOut.box.x_min
                \/ cropOut.box.y_max <= cropOut.box.y_min)
        /\ cropOut.kind = "crop" =>
               /\ 0 <= cropOut.box.x_min /\ cropOut.box.x_min < cropOut.box.x_max
               /\ cropOut.box.x_max <= cropFrame.w
               /\ 0 <= cropOut.box.y_min /\ cropOut.box.y_min < cropOut.box.y_max
               /\ cropOut.box.y_max <= cropFrame.h

\* C3 witness: a crop whose upper coordinates equal the frame size.
C3_Witness ==
    /\ CropReturned
    /\ cropOut.box.x_max = cropFrame.w
    /\ cropOut.box.y_max = cropFrame.h
    /\ cropOut.box.x_min > 0

----------------------------------------------------------------------------
(* /webcam/ws: routers/translate_webcam.py and translate_webcam.py *)

\* largest number of messages a client sends on one connection
MaxMsgs == 3

Routers == "routers.translate_webcam"
Legacy == "translate_webcam"
Variants == {Routers, Legacy}

\* frames a client sends: no hand, a hand in the middle of the frame,
\* a hand whose landmarks lie beyond the right edge
WsFrames ==
    {[w |-> 100, h |-> 100, lm |-> {}],
     [w |-> 100, h |-> 100, lm |-> {<<1, 1>>, <<2, 3>>}],
     [w |-> 100, h |-> 100, lm |-> {<<LmDen + 1, 1>>}]}

NoFrame == [w |-> 0, h |-> 0, lm |-> {}]

\* text messages: "text" does not start with "data:image"; "no_comma" starts
\* with it and has no ","; "bad_base64" has a payload b64decode rejects;
\* "not_image" has a payload cv2.imdecode returns None for; "frame" decodes
Messages ==
    [kind : {"text", "no_comma", "bad_base64", "not_image"}, frame : {NoFrame}]
        \cup [kind : {"frame"}, frame : WsFrames]

\* client.run_workflow returns a result or raises
InferenceOutcomes == {"ok", "raise"}

NoMessage ==
    [n |-> 0, kind |-> "none", frame |-> NoFrame, region |-> "None", calls |-> 0,
     raised |-> FALSE, errlog |-> FALSE, prediction |-> "null", replies |-> <<>>]

\* the inline crop of translate_webcam.websocket_endpoint
InlineCrop(frame) ==
    IF frame.lm = {}
    THEN NoRegion(ZeroBox)
    ELSE LET b == PadAndClamp(LandmarkBox(frame), frame.w, frame.h)
         IN  IF b.x_max > b.x_min /\ b.y_max > b.y_min
             THEN Cropped(b) ELSE NoRegion(b)

HandRegion(v, frame) ==
    IF v = Routers THEN crop_hand_from_frame(frame) ELSE InlineCrop(frame)

ExceptClauseMutNone(e) == "raised"

\* `except WebSocketDisconnect: pass`: where an exception raised inside the
\* try block leaves the handler
ExceptClause(e) == IF e = "WebSocketDisconnect" THEN "returned" ELSE "raised"

InferenceCaughtMutNever(v) == FALSE

\* `try: client.run_workflow(...) except Exception as e: logger.error(...)`
\* exists in translate_webcam.py only
InferenceCaught(v) == v = Legacy

\* cv2.imdecode returned None: translate_webcam.py logs and continues,
\* routers/translate_webcam.py reads frame.shape in crop_hand_from_frame
DecodeFailureSkipped(v) == v = Legacy

InferenceCalledMutAlways(region) == TRUE

\* `if cropped_img:` / `if x_max > x_min and y_max > y_min:` guard the
\* inference call
InferenceCalled(region) == region.kind = "crop"

Handling == pc \in {"receive", "send_bytes", "send_json"}

InitWs ==
    /\ variant \in Variants
    /\ pc = "accept"
    /\ inbox = <<>>
    /\ clientClosed = FALSE
    /\ outbox = <<>>
    /\ cur = NoMessage
    /\ exc = "none"
    /\ logged = 0
    /\ CropIdle
    /\ DbIdle
    /\ AuthIdle /\ UpIdle /\ SessIdle
    /\ TrackIdle /\ PreIdle

\* await websocket.accept()
Accept ==
    /\ pc = "accept"
    /\ pc' = "receive"
    /\ UNCHANGED <<variant, inbox, clientClosed, outbox, cur, exc, logged>>
    /\ UNCHANGED <<cropVars, dbVars, extVars>>

ClientSend ==
    /\ Handling
    /\ ~clientClosed
    /\ cur.n + Len(inbox) < MaxMsgs
    /\ \E m \in Messages : inbox' = Append(inbox, m)
    /\ UNCHANGED <<variant, pc, clientClosed, outbox, cur, exc, logged>>
    /\ UNCHANGED <<cropVars, dbVars, extVars>>

ClientClose ==
    /\ Handling
    /\ ~clientClosed
    /\ clientClosed' = TRUE
    /\ UNCHANGED <<variant, pc, inbox, outbox, cur, exc, logged>>
    /\ UNCHANGED <<cropVars, dbVars, extVars>>

Raise(e) ==
    /\ exc' = e
    /\ pc' = ExceptClause(e)

Taken(m) ==
    [NoMessage EXCEPT !.n = cur.n + 1, !.kind = m.kind]

\* receive_text() after the client closed: WebSocketDisconnect
RecvDisconnect ==
    /\ pc = "receive"
    /\ inbox = <<>>
    /\ clientClosed
    /\ Raise("WebSocketDisconnect")
    /\ UNCHANGED <<variant, inbox, clientClosed, outbox, cur, logged>>
    /\ UNCHANGED <<cropVars, dbVars, extVars>>

\* `if not data.startswith("data:image"): continue`
RecvSkipText ==
    /\ pc = "receive"
    /\ inbox # <<>>
    /\ Head(inbox).kind = "text"
    /\ cur' = Taken(Head(inbox))
    /\ inbox' = Tail(inbox)
    /\ UNCHANGED <<variant, pc, clientClosed, outbox, exc, logged>>
    /\ UNCHANGED <<cropVars, dbVars, extVars>>

\* data.split(",")[1] raises IndexError, base64.b64decode raises binascii.Error
RecvMalformed ==
    /\ pc = "receive"
    /\ inbox # <<>>
    /\ Head(inbox).kind \in {"no_comma", "bad_base64"}
    /\ cur' = Taken(Head(inbox))
    /\ inbox' = Tail(inbox)
    /\ Raise(IF Head(inbox).kind = "no_comma" THEN "IndexError" ELSE "binascii.Error")
    /\ UNCHANGED <<variant, clientClosed, outbox, logged>>
    /\ UNCHANGED <<cropVars, dbVars, extVars>>

\* frame is None
RecvNotImage ==
    /\ pc = "receive"
    /\ inbox # <<>>
    /\ Head(inbox).kind = "not_image"
    /\ inbox' = Tail(inbox)
    /\ IF DecodeFailureSkipped(variant)
       THEN /\ cur' = [Taken(Head(inbox)) EXCEPT !.errlog = TRUE]
            /\ logged' = logged + 1
            /\ UNCHANGED <<pc, exc>>
       ELSE /\ cur' = Taken(Head(inbox))
            /\ Raise("AttributeError")
            /\ UNCHANGED logged
    /\ UNCHANGED <<variant, clientClosed, outbox>>
    /\ UNCHANGED <<cropVars, dbVars, extVars>>

\* a decoded frame: crop, then inference when a region was cropped, up to
\* `await websocket.send_bytes`
RecvFrame ==
    /\ pc = "receive"
    /\ inbox # <<>>
    /\ Head(inbox).kind = "frame"
    /\ inbox' = Tail(inbox)
    /\ LET m == Head(inbox)
           region == HandRegion(variant, m.frame)
           t == [Taken(m) EXCEPT !.frame = m.frame, !.region = region.kind]
       IN  IF InferenceCalled(region)
           THEN \E o \in InferenceOutcomes :
                  IF o = "ok"
                  THEN /\ cur' = [t EXCEPT !.calls = 1, !.prediction = "A"]
                       /\ pc' = "send_bytes"
                       /\ UNCHANGED <<exc, logged>>
                  ELSE IF InferenceCaught(variant)
                       THEN /\ cur' = [t EXCEPT !.calls = 1, !.raised = TRUE,
                                                !.errlog = TRUE]
                            /\ logged' = logged + 1
                            /\ pc' = "send_bytes"
                            /\ UNCHANGED exc
                       ELSE /\ cur' = [t EXCEPT !.calls = 1, !.raised = TRUE]
                            /\ Raise("Exception")
                            /\ UNCHANGED logged
           ELSE /\ cur' = t
                /\ pc' = "send_bytes"
                /\ UNCHANGED <<exc, logged>>
    /\ UNCHANGED <<variant, clientClosed, outbox>>
    /\ UNCHANGED <<cropVars, dbVars, extVars>>

\* await websocket.send_bytes(buffer.tobytes())
SendBytes ==
    /\ pc = "send_bytes"
    /\ IF clientClosed
       THEN /\ Raise("WebSocketDisconnect")
            /\ UNCHANGED <<outbox, cur>>
       ELSE /\ outbox' = Append(outbox, [type |-> "bytes", n |-> cur.n,
                                          prediction |-> "null"])
            /\ cur' = [cur EXCEPT !.replies = Append(@, "bytes")]
            /\ pc' = "send_json"
            /\ UNCHANGED exc
    /\ UNCHANGED <<variant, inbox, clientClosed, logged>>
    /\ UNCHANGED <<cropVars, dbVars, extVars>>

\* await websocket.send_json({"prediction": prediction_data})
SendJson ==
    /\ pc = "send_json"
    /\ IF clientClosed
       THEN /\ Raise("WebSocketDisconnect")
            /\ UNCHANGED <<outbox, cur>>
       ELSE /\ outbox' = Append(outbox, [type |-> "json", n |-> cur.n,
                                          prediction |-> cur.prediction])
            /\ cur' = [cur EXCEPT !.replies = Append(@, "json")]
            /\ pc' = "receive"
            /\ UNCHANGED exc
    /\ UNCHANGED <<variant, inbox, clientClosed, logged>>
    /\ UNCHANGED <<cropVars, dbVars, extVars>>

NextWs ==
    \/ Accept
    \/ ClientSend
    \/ ClientClose
    \/ RecvDisconnect
    \/ RecvSkipText
    \/ RecvMalformed
    \/ RecvNotImage
    \/ RecvFrame
    \/ SendBytes
    \/ SendJson

SpecWs == InitWs /\ [][NextWs]_vars

----------------------------------------------------------------------------
(* Claims about /webcam/ws *)

BothReplies == <<"bytes", "json">>

\* the handler is done with the message in cur: it waits for the next one
\* or has left the loop
FrameFinished == cur.kind = "frame" /\ pc \in {"receive", "returned", "raised"}

\* C4: every frame message received is answered with exactly two messages,
\* the binary frame and then the JSON prediction, as long as the client has
\* not disconnected.
C4_TwoRepliesPerFrame ==
    (FrameFinished /\ ~clientClosed) =>
        /\ cur.replies = BothReplies
        /\ Len(outbox) >= 2
        /\ outbox[Len(outbox) - 1].type = "bytes"
        /\ outbox[Len(outbox)].type = "json"
        /\ outbox[Len(outbox) - 1].n = cur.n
        /\ outbox[Len(outbox)].n = cur.n

\* C5: when receive_text / send_bytes / send_json raises WebSocketDisconnect
\* the handler returns normally: the step that raises it sends nothing and
\* ends the loop in "returned", never in "raised", and nothing is sent after.
C5_DisconnectSwallowed ==
    [][/\ (exc # "WebSocketDisconnect" /\ exc' = "WebSocketDisconnect")
            => (pc' = "returned" /\ outbox' = outbox)
       /\ (exc = "WebSocketDisconnect")
            => (pc' = "returned" /\ outbox' = outbox)]_vars

\* C5 witness: the client closed between the two replies of a frame; the
\* handler returned having sent the binary reply only.
C5_Witness ==
    /\ pc = "returned"
    /\ exc = "WebSocketDisconnect"
    /\ cur.kind = "frame"
    /\ cur.replies = <<"bytes">>

\* C6: in translate_webcam.websocket_endpoint a raising inference call is
\* made once, is logged, leaves the prediction null, and the handler goes on
\* to send both replies and to receive again (unless the client closed).
C6_LegacyInferenceFailure ==
    (variant = Legacy /\ cur.raised) =>
        /\ cur.calls = 1
        /\ cur.errlog /\ logged >= 1
        /\ cur.prediction = "null"
        /\ pc \in {"send_bytes", "send_json", "receive", "returned"}
        /\ (pc = "returned") => (clientClosed /\ exc = "WebSocketDisconnect")
        /\ (pc = "send_json") => (cur.replies = <<"bytes">>)
        /\ (pc = "receive") =>
              /\ cur.replies = BothReplies
              /\ outbox[Len(outbox)] =
                     [type |-> "json", n |-> cur.n, prediction |-> "null"]
              /\ outbox[Len(outbox) - 1].type = "bytes"

\* C6 witness: after a failed inference both replies were sent and the
\* handler is back at receive_text with a further message waiting.
C6_Witness ==
    /\ variant = Legacy
    /\ cur.raised
    /\ pc = "receive"
    /\ cur.replies = BothReplies
    /\ inbox # <<>>

\* C7: in routers.translate_webcam.websocket_endpoint a raising
\* run_asl_inference is replaced by a default prediction, both replies are
\* sent and the connection stays open.
C7_RoutersInferenceFailure ==
    (variant = Routers /\ cur.raised) =>
        /\ cur.prediction = "null"
        /\ pc \in {"send_bytes", "send_json", "receive", "returned"}
        /\ (pc = "returned") => clientClosed
        /\ (pc = "receive") => (cur.replies = BothReplies)

----------------------------------------------------------------------------
(* /settings: routers/settings.py, models/user_settings.py, database.py *)

\* number of rows of USER_INFORMATION; their USER_IDs are 1 .. MaxUsers
MaxUsers == 1

ExistingUsers == 1 .. MaxUsers
\* user ids a request may name: the existing users and one unknown id
RequestUserIds == 1 .. (MaxUsers + 1)
\* database sessions (one per request in progress), get_db
Sessions == {"s1", "s2"}

\* a flag of the JSON body of POST /settings/
RawFlags == {"true", "false", "omitted"}
RawBodies == [speech_enabled : RawFlags, webcam_enabled : RawFlags]
NoRaw == [speech_enabled |-> "omitted", webcam_enabled |-> "omitted"]

NoBody == [found |-> FALSE, SPEECH_ENABLED |-> FALSE, WEBCAM_ENABLED |-> FALSE]
RowBody(r) ==
    [found |-> TRUE, SPEECH_ENABLED |-> r.SPEECH_ENABLED,
     WEBCAM_ENABLED |-> r.WEBCAM_ENABLED]

IdleRequest ==
    [pc |-> "idle", op |-> "none", user_id |-> 0, raw |-> NoRaw,
     speech_enabled |-> FALSE, webcam_enabled |-> FALSE, found |-> 0,
     status |-> 0, body |-> NoBody]

Response(op, u, status, body) ==
    [IdleRequest EXCEPT !.pc = "done", !.op = op, !.user_id = u,
                        !.status = status, !.body = body]

NeverWritten ==
    [by |-> "none", raw |-> NoRaw, speech_enabled |-> FALSE, webcam_enabled |-> FALSE]

SettingsCreateMutDefaults(u, raw) ==
    [user_id |-> u,
     speech_enabled |-> IF raw.speech_enabled = "omitted" THEN TRUE
                        ELSE raw.speech_enabled = "true",
     webcam_enabled |-> IF raw.webcam_enabled = "omitted" THEN FALSE
                        ELSE raw.webcam_enabled = "true"]

\* class SettingsCreate: speech_enabled defaults to False, webcam_enabled to True
SettingsCreate(u, raw) ==
    [user_id |-> u,
     speech_enabled |-> IF raw.speech_enabled = "omitted" THEN FALSE
                        ELSE raw.speech_enabled = "true",
     webcam_enabled |-> IF raw.webcam_enabled = "omitted" THEN TRUE
                        ELSE raw.webcam_enabled = "true"]

NoRow == [ID |-> 0, USER_ID |-> 0, SPEECH_ENABLED |-> FALSE, WEBCAM_ENABLED |-> FALSE]

RowsOf(u) == {r \in USER_SETTINGS : r.USER_ID = u}

QueryFirstMutNone(u) == NoRow

QueryFirstMutNoFilter(u) ==
    IF USER_SETTINGS = {} THEN NoRow ELSE CHOOSE r \in USER_SETTINGS : TRUE

\* db.query(UserSettings).filter(UserSettings.USER_ID == user_id).first()
QueryFirst(u) == IF RowsOf(u) = {} THEN NoRow ELSE CHOOSE r \in RowsOf(u) : TRUE

\* UserSettings(USER_ID=..., SPEECH_ENABLED=..., WEBCAM_ENABLED=...), ID = uuid4()
NewRow(settings) ==
    [ID |-> Cardinality(USER_SETTINGS) + 1, USER_ID |-> settings.user_id,
     SPEECH_ENABLED |-> settings.speech_enabled,
     WEBCAM_ENABLED |-> settings.webcam_enabled]

\* USER_ID: ForeignKey("USER_INFORMATION.USER_ID"), unique=True
InsertRejected(row) ==
    \/ row.USER_ID \notin ExistingUsers
    \/ \E r \in USER_SETTINGS : r.USER_ID = row.USER_ID

UpdatedRowMutSpeechOnly(row, speech, webcam) ==
    [row EXCEPT !.SPEECH_ENABLED = speech]

\* settings.SPEECH_ENABLED = ...; settings.WEBCAM_ENABLED = ...
UpdatedRow(row, speech, webcam) ==
    [row EXCEPT !.SPEECH_ENABLED = speech, !.WEBCAM_ENABLED = webcam]

InitSettings ==
    /\ USER_SETTINGS = {}
    /\ req = [s \in Sessions |-> IdleRequest]
    /\ lastWrite = [u \in RequestUserIds |-> NeverWritten]
    /\ CropIdle
    /\ WsIdle
    /\ AuthIdle /\ UpIdle /\ SessIdle
    /\ TrackIdle /\ PreIdle

\* GET /settings/{user_id}
get_settings(s) ==
    /\ req[s].pc = "idle"
    /\ \E u \in RequestUserIds :
         LET settings == QueryFirst(u)
         IN  req' = [req EXCEPT ![s] =
                       IF settings = NoRow
                       THEN Response("get", u, 404, NoBody)
                       ELSE Response("get", u, 200, RowBody(settings))]
    /\ UNCHANGED <<USER_SETTINGS, lastWrite, cropVars, wsVars, extVars>>

\* POST /settings/: the existence query, 400 when a row is found
create_settings_query(s) ==
    /\ req[s].pc = "idle"
    /\ \E u \in RequestUserIds, raw \in RawBodies :
         LET settings == SettingsCreate(u, raw)
             existing == QueryFirst(settings.user_id)
         IN  req' = [req EXCEPT ![s] =
                       IF existing # NoRow
                       THEN Response("post", u, 400, NoBody)
                       ELSE [IdleRequest EXCEPT
                               !.pc = "commit", !.op = "post", !.user_id = u,
                               !.raw = raw,
                               !.speech_enabled = settings.speech_enabled,
                               !.webcam_enabled = settings.webcam_enabled]]
    /\ UNCHANGED <<USER_SETTINGS, lastWrite, cropVars, wsVars, extVars>>

\* POST /settings/: db.add, db.commit, db.refresh, return
create_settings_commit(s) ==
    /\ req[s].pc = "commit"
    /\ req[s].op = "post"
    /\ LET r == req[s]
           row == NewRow(r)
       IN  IF InsertRejected(row)
           THEN /\ req' = [req EXCEPT ![s] = Response("post", r.user_id, 500, NoBody)]
                /\ UNCHANGED <<USER_SETTINGS, lastWrite>>
           ELSE /\ USER_SETTINGS' = USER_SETTINGS \cup {row}
                /\ req' = [req EXCEPT ![s] =
                             Response("post", r.user_id, 200, RowBody(row))]
                /\ lastWrite' = [lastWrite EXCEPT ![r.user_id] =
                     [by |-> "post", raw |-> r.raw,
                      speech_enabled |-> IF r.raw.speech_enabled = "omitted"
                                         THEN FALSE
                                         ELSE r.raw.speech_enabled = "true",
                      webcam_enabled |-> IF r.raw.webcam_enabled = "omitted"
                                         THEN TRUE
                                         ELSE r.raw.webcam_enabled = "true"]]
    /\ UNCHANGED <<cropVars, wsVars, extVars>>

\* PUT /settings/{user_id}: the query, 404 when no row is found
update_settings_query(s) ==
    /\ req[s].pc = "idle"
    /\ \E u \in RequestUserIds, speech \in BOOLEAN, webcam \in BOOLEAN :
         LET settings == QueryFirst(u)
         IN  req' = [req EXCEPT ![s] =
                       IF settings = NoRow
                       THEN Response("put", u, 404, NoBody)
                       ELSE [IdleRequest EXCEPT
                               !.pc = "commit", !.op = "put", !.user_id = u,
                               !.speech_enabled = speech,
                               !.webcam_enabled = webcam,
                               !.found = settings.ID]]
    /\ UNCHANGED <<USER_SETTINGS, lastWrite, cropVars, wsVars, extVars>>

\* PUT /settings/{user_id}: the assignments, db.commit, db.refresh, return
update_settings_commit(s) ==
    /\ req[s].pc = "commit"
    /\ req[s].op = "put"
    /\ LET r == req[s]
           old == CHOOSE x \in USER_SETTINGS : x.ID = r.found
           new == UpdatedRow(old, r.speech_enabled, r.webcam_enabled)
       IN  /\ USER_SETTINGS' = (USER_SETTINGS \ {old}) \cup {new}
           /\ req' = [req EXCEPT ![s] = Response("put", r.user_id, 200, RowBody(new))]
           /\ lastWrite' = [lastWrite EXCEPT ![r.user_id] =
                [by |-> "put", raw |-> NoRaw, speech_enabled |-> r.speech_enabled,
                 webcam_enabled |-> r.webcam_enabled]]
    /\ UNCHANGED <<cropVars, wsVars, extVars>>

\* get_db: `finally: db.close()` once the response is returned
close_session(s) ==
    /\ req[s].pc = "done"
    /\ req' = [req EXCEPT ![s] = IdleRequest]
    /\ UNCHANGED <<USER_SETTINGS, lastWrite, cropVars, wsVars, extVars>>

NextSettings ==
    \E s \in Sessions :
        \/ get_settings(s)
        \/ create_settings_query(s)
        \/ create_settings_commit(s)
        \/ update_settings_query(s)
        \/ update_settings_commit(s)
        \/ close_session(s)

SpecSettings == InitSettings /\ [][NextSettings]_vars

----------------------------------------------------------------------------
(* Claims about /settings *)

\* session s answers a GET for user u in this step
GetAnswered(s, u) ==
    /\ req[s].pc = "idle"
    /\ req'[s].pc = "done"
    /\ req'[s].op = "get"
    /\ req'[s].user_id = u

ReturnsFlagsOf(r, w) ==
    /\ r.status = 200
    /\ r.body.found
    /\ r.body.SPEECH_ENABLED = w.speech_enabled
    /\ r.body.WEBCAM_ENABLED = w.webcam_enabled

\* C8: a successful POST /settings/ followed by GET /settings/{user_id} with
\* no update in between returns the two flags supplied, False / True standing
\* for an omitted speech_enabled / webcam_enabled.
C8_CreateThenGet ==
    [][\A s \in Sessions, u \in RequestUserIds :
          (GetAnswered(s, u) /\ lastWrite[u].by = "post")
              => ReturnsFlagsOf(req'[s], lastWrite[u])]_vars

\* C8 witness: a GET answered the flags of a POST that gave speech_enabled
\* true and omitted webcam_enabled.
C8_Witness ==
    \E s \in Sessions :
        /\ req[s].pc = "done" /\ req[s].op = "get" /\ req[s].status = 200
        /\ lastWrite[req[s].user_id].by = "post"
        /\ lastWrite[req[s].user_id].raw =
               [speech_enabled |-> "true", webcam_enabled |-> "omitted"]
        /\ req[s].body.SPEECH_ENABLED /\ req[s].body.WEBCAM_ENABLED

\* session s answers, in this step, a POST for a user that has a row
DuplicatePost(s) ==
    /\ req[s].pc = "idle"
    /\ req'[s].op = "post"
    /\ RowsOf(req'[s].user_id) # {}

\* C9: there is at most one settings row per user_id, and a POST for a user
\* that already has a row is answered 400 and leaves the table unchanged.
C9_OneRowPerUser ==
    /\ [](\A u \in RequestUserIds : Cardinality(RowsOf(u)) <= 1)
    /\ [][\A s \in Sessions :
             DuplicatePost(s) =>
                 /\ req'[s].pc = "done"
                 /\ req'[s].status = 400
                 /\ USER_SETTINGS' = USER_SETTINGS]_vars

\* C9 witness: a POST was answered 400 for a user whose row holds
\* speech_enabled = TRUE.
C9_Witness ==
    \E s \in Sessions :
        /\ req[s].pc = "done" /\ req[s].op = "post" /\ req[s].status = 400
        /\ \E r \in RowsOf(req[s].user_id) : r.SPEECH_ENABLED

NoRowRequest(s) ==
    /\ req[s].pc = "idle"
    /\ req'[s].op \in {"get", "put"}
    /\ RowsOf(req'[s].user_id) = {}

\* C11: GET and PUT /settings/{user_id} for a user that has no settings row
\* are answered 404, and the PUT creates no row and changes no stored row.
C11_NoRowNotFound ==
    [][\A s \in Sessions :
          NoRowRequest(s) =>
              /\ req'[s].pc = "done"
              /\ req'[s].status = 404
              /\ ~req'[s].body.found
              /\ USER_SETTINGS' = USER_SETTINGS]_vars

\* C11 witness: a PUT was answered 404 for a user without a row while
\* another user's row is stored.
C11_Witness ==
    \E s \in Sessions :
        /\ req[s].pc = "done" /\ req[s].op = "put" /\ req[s].status = 404
        /\ RowsOf(req[s].user_id) = {}
        /\ USER_SETTINGS # {}

----------------------------------------------------------------------------
(* /auth: routers/auth.py, models/user_information.py *)

\* bcrypt hashes at most this many bytes of a secret
BcryptMax == 72

Usernames == {"alice", "bob"}
Emails == {"alice@example.com", "bob@example.com"}

\* a password of BcryptMax + 1 bytes: BcryptMax bytes 7, then the byte last
LongPassword(last) == [i \in 1 .. (BcryptMax + 1) |-> IF i > BcryptMax THEN last ELSE 7]

\* user.password.encode("utf-8"): two short passwords and two long ones
\* that differ only after the first BcryptMax bytes
Passwords == {<<1>>, <<2>>, LongPassword(1), LongPassword(2)}

\* user.password.encode("utf-8")[:72]
truncated_pw_bytes(password) == SubSeq(password, 1, Min2(Len(password), BcryptMax))

NoHash == [scheme |-> "none", secret |-> <<>>]

\* pwd_context.hash(secret): a bcrypt hash, determined by the secret's
\* first BcryptMax bytes (the salt is part of the hash and not modelled)
PwdHash(secret) == [scheme |-> "bcrypt", secret |-> truncated_pw_bytes(secret)]

\* what the installed bcrypt backend does with a secret longer than
\* BcryptMax bytes: it hashes the first BcryptMax bytes, or raises ValueError
BcryptBackends == {"truncates", "rejects"}

\* pwd_context.verify(secret, hash)
PwdVerify(backend, secret, hash) ==
    IF Len(secret) > BcryptMax /\ backend = "rejects"
    THEN "ValueError"
    ELSE IF PwdHash(secret) = hash THEN "match" ELSE "mismatch"

NoUser == [USER_ID |-> 0, USERNAME |-> "", EMAIL |-> "", PASSWORD |-> NoHash]

ExistingUserMutUsernameOnly(username, email) ==
    LET found == {r \in USER_INFORMATION : r.USERNAME = username}
    IN  IF found = {} THEN NoUser ELSE CHOOSE r \in found : TRUE

\* db.query(UserInformation).filter((USERNAME == username) | (EMAIL == email)).first()
ExistingUser(username, email) ==
    LET found == {r \in USER_INFORMATION :
                     r.USERNAME = username \/ r.EMAIL = email}
    IN  IF found = {} THEN NoUser ELSE CHOOSE r \in found : TRUE

\* db.query(UserInformation).filter(UserInformation.USERNAME == username).first()
db_user(username) ==
    LET found == {r \in USER_INFORMATION : r.USERNAME = username}
    IN  IF found = {} THEN NoUser ELSE CHOOSE r \in found : TRUE

\* UserInformation(EMAIL=..., USERNAME=..., PASSWORD=hashed_pw), USER_ID autoincrement
new_user(r) ==
    [USER_ID |-> Cardinality(USER_INFORMATION) + 1, USERNAME |-> r.username,
     EMAIL |-> r.email, PASSWORD |-> r.hashed_pw]

UserInsertRejectedMutUsernameOnly(row) ==
    \E r \in USER_INFORMATION : r.USERNAME = row.USERNAME

\* USERNAME: unique=True, EMAIL: unique=True
UserInsertRejected(row) ==
    \E r \in USER_INFORMATION : r.USERNAME = row.USERNAME \/ r.EMAIL = row.EMAIL

IdleAuthRequest ==
    [pc |-> "idle", op |-> "none", username |-> "", email |-> "",
     password |-> <<>>, hashed_pw |-> NoHash, status |-> 0, detail |-> "", id |-> 0]

AuthResponse(op, username, email, password, status, detail, id) ==
    [IdleAuthRequest EXCEPT !.pc = "done", !.op = op, !.username = username,
                            !.email = email, !.password = password,
                            !.status = status, !.detail = detail, !.id = id]

NotSignedUp == [password |-> <<>>, id |-> 0]

InitAuth ==
    /\ USER_INFORMATION = {}
    /\ authReq = [s \in Sessions |-> IdleAuthRequest]
    /\ signedUp = [u \in Usernames |-> NotSignedUp]
    /\ CropIdle /\ WsIdle /\ DbIdle /\ UpIdle /\ SessIdle
    /\ TrackIdle /\ PreIdle

\* POST /auth/signup: the duplicate query (400 when a row is found), then
\* the truncation and the hashing of the password
signup_query(s) ==
    /\ authReq[s].pc = "idle"
    /\ \E username \in Usernames, email \in Emails, password \in Passwords :
         LET existing == ExistingUser(username, email)
         IN  authReq' = [authReq EXCEPT ![s] =
               IF existing # NoUser
               THEN AuthResponse("signup", username, email, password, 400,
                                 "Username or email already exists", 0)
               ELSE [IdleAuthRequest EXCEPT
                       !.pc = "commit", !.op = "signup",
                       !.username = username, !.email = email,
                       !.password = password,
                       !.hashed_pw = PwdHash(truncated_pw_bytes(password))]]
    /\ UNCHANGED <<USER_INFORMATION, signedUp>>
    /\ UNCHANGED <<cropVars, wsVars, dbVars, upVars, sessVars, moreVars>>

\* POST /auth/signup: db.add, db.commit, db.refresh, return
signup_commit(s) ==
    /\ authReq[s].pc = "commit"
    /\ LET r == authReq[s]
           row == new_user(r)
       IN  IF UserInsertRejected(row)
           THEN /\ authReq' = [authReq EXCEPT ![s] =
                     AuthResponse("signup", r.username, r.email, r.password, 500,
                                  "IntegrityError", 0)]
                /\ UNCHANGED <<USER_INFORMATION, signedUp>>
           ELSE /\ USER_INFORMATION' = USER_INFORMATION \cup {row}
                /\ authReq' = [authReq EXCEPT ![s] =
                     AuthResponse("signup", r.username, r.email, r.password, 200,
                                  "", row.USER_ID)]
                /\ signedUp' = [signedUp EXCEPT ![r.username] =
                     [password |-> r.password, id |-> row.USER_ID]]
    /\ UNCHANGED <<cropVars, wsVars, dbVars, upVars, sessVars, moreVars>>

\* the response of POST /auth/login for the row found and what verify did
LoginResponse(username, password, user, verified) ==
    IF user = NoUser
    THEN AuthResponse("login", username, "", password, 401, "Invalid credentials", 0)
    ELSE IF verified = "ValueError"
    THEN AuthResponse("login", username, "", password, 500, "ValueError", 0)
    ELSE IF verified = "mismatch"
    THEN AuthResponse("login", username, "", password, 401, "Invalid credentials", 0)
    ELSE AuthResponse("login", username, user.EMAIL, password, 200, "", user.USER_ID)

\* POST /auth/login
login(s) ==
    /\ authReq[s].pc = "idle"
    /\ \E username \in Usernames, password \in Passwords, backend \in BcryptBackends :
         LET user == db_user(username)
         IN  authReq' = [authReq EXCEPT ![s] =
               LoginResponse(username, password, user,
                             PwdVerify(backend, password, user.PASSWORD))]
    /\ UNCHANGED <<USER_INFORMATION, signedUp>>
    /\ UNCHANGED <<cropVars, wsVars, dbVars, upVars, sessVars, moreVars>>

\* get_db: `finally: db.close()` once the response is returned
auth_close_session(s) ==
    /\ authReq[s].pc = "done"
    /\ authReq' = [authReq EXCEPT ![s] = IdleAuthRequest]
    /\ UNCHANGED <<USER_INFORMATION, signedUp>>
    /\ UNCHANGED <<cropVars, wsVars, dbVars, upVars, sessVars, moreVars>>

NextAuth ==
    \E s \in Sessions :
        \/ signup_query(s)
        \/ signup_commit(s)
        \/ login(s)
        \/ auth_close_session(s)

SpecAuth == InitAuth /\ [][NextAuth]_vars

----------------------------------------------------------------------------
(* Claims about /auth *)

\* the step in which session s starts a signup whose username or email is
\* in a stored row
DuplicateSignup(s) ==
    /\ authReq[s].pc = "idle"
    /\ authReq'[s].op = "signup"
    /\ \E r \in USER_INFORMATION :
         r.USERNAME = authReq'[s].username \/ r.EMAIL = authReq'[s].email

\* C12: a signup whose username or email belongs to a stored user is
\* answered 400 "Username or email already exists" without hashing the
\* password, and USER_INFORMATION is left as it was.
C12_DuplicateSignupRejected ==
    [][\A s \in Sessions :
          DuplicateSignup(s) =>
              /\ authReq'[s].pc = "done"
              /\ authReq'[s].status = 400
              /\ authReq'[s].detail = "Username or email already exists"
              /\ authReq'[s].hashed_pw = NoHash
              /\ USER_INFORMATION' = USER_INFORMATION]_vars

\* C12 witness: a signup with a new username and a stored email was
\* answered 400.
C12_Witness ==
    \E s \in Sessions :
        /\ authReq[s].pc = "done" /\ authReq[s].op = "signup"
        /\ authReq[s].status = 400
        /\ \A r \in USER_INFORMATION : r.USERNAME # authReq[s].username
        /\ \E r \in USER_INFORMATION : r.EMAIL = authReq[s].email

\* C13: no two stored users share a username, and no two share an email.
C13_UniqueUsernameAndEmail ==
    \A r1, r2 \in USER_INFORMATION :
        (r1.USERNAME = r2.USERNAME \/ r1.EMAIL = r2.EMAIL) => r1 = r2

\* C13 witness: a signup that passed the duplicate query was refused at
\* commit because another username had stored its email meanwhile; two
\* users are stored.
C13_Witness ==
    /\ Cardinality(USER_INFORMATION) = 2
    /\ \E s \in Sessions :
         /\ authReq[s].pc = "done" /\ authReq[s].op = "signup"
         /\ authReq[s].status = 500
         /\ \E r \in USER_INFORMATION :
              r.EMAIL = authReq[s].email /\ r.USERNAME # authReq[s].username

\* C14: a login that fails is answered 401 "Invalid credentials", for an
\* unknown username and for a known username with a wrong password alike.
C14_FailedLoginUniform ==
    \A s \in Sessions :
        (authReq[s].pc = "done" /\ authReq[s].op = "login"
            /\ authReq[s].status # 200) =>
                /\ authReq[s].status = 401
                /\ authReq[s].detail = "Invalid credentials"

\* the step in which session s logs in with the username and the password
\* of a successful signup
LoginAfterSignup(s) ==
    /\ authReq[s].pc = "idle"
    /\ authReq'[s].op = "login"
    /\ signedUp[authReq'[s].username] # NotSignedUp
    /\ signedUp[authReq'[s].username].password = authReq'[s].password

\* C15: after a successful signup with username u and password p, a login
\* with u and p is answered 200 with the id assigned at signup, for every
\* p, passwords longer than 72 bytes included.
C15_LoginAfterSignupSucceeds ==
    [][\A s \in Sessions :
          LoginAfterSignup(s) =>
              /\ authReq'[s].status = 200
              /\ authReq'[s].id = signedUp[authReq'[s].username].id]_vars

----------------------------------------------------------------------------
(* image and video uploads: translate_image.py, app.py,                   *)
(* routers/translate_video.py                                             *)

\* longest uploaded video, in frames
MaxFrames == 3

TranslateImage == "translate_image.predict_image"
AppImage == "app.predict_image"
Video == "routers.translate_video.predict_video"
Endpoints == {TranslateImage, AppImage, Video}

\* an uploaded image: it cannot be decoded, or shows no hand, or shows a
\* hand whose clamped box is an empty slice, or a hand with a non-empty crop
Images == {"undecodable", "no_hand", "hand_empty_crop", "hand"}
\* the content of a video frame
FrameContents == {"f1", "f2"}
Videos == UNION {[1 .. n -> FrameContents] : n \in 0 .. MaxFrames}

\* a file on disk: tempfile.NamedTemporaryFile(suffix=...) and names made from it
Path(stem, n, suffix) == [stem |-> stem, n |-> n, suffix |-> suffix]
NoPath == Path("", 0, "")
temp_path == Path("tmp", 0, ".jpg")
video_path == Path("tmp", 0, ".mp4")
frame_path(i) == Path("frame", i, ".jpg")

\* image_path.replace(".jpg", "_cropped.jpg") and (".jpg", "_overlay.jpg")
ReplaceJpg(path, tag) ==
    IF path.suffix = ".jpg" THEN [path EXCEPT !.stem = tag] ELSE path

\* what a step of the request can do besides succeeding
ReadOutcomes == {"ok", "raises"}
\* cv2.imwrite: writes the file, returns False without writing, or raises
ImwriteOutcomes == {"written", "false", "raises"}
\* client.run_workflow / model.predict
PredictOutcomes == {"result", "raises"}

NoContent == [kind |-> "none", value |-> "none"]

ErrorResponseMutBadRequest(e) ==
    [status |-> 400, body |-> [kind |-> "error", value |-> e]]

\* except Exception as e: JSONResponse(content={"error": str(e)}, status_code=500)
ErrorResponse(e) == [status |-> 500, body |-> [kind |-> "error", value |-> e]]

\* JSONResponse(content=...)
OkResponse(kind) == [status |-> 200, body |-> [kind |-> kind, value |-> "none"]]

\* what preprocess_with_mediapipe did: the path returned, whether a hand
\* was detected, whether the crop file was written, the exception caught
NotPreprocessed ==
    [returned |-> NoPath, hand |-> FALSE, written |-> FALSE, caught |-> "none",
     exists |-> FALSE]

UploadRequest(endpoint, image, video) ==
    [endpoint |-> endpoint, pc |-> "save", image |-> image, video |-> video,
     read |-> 0, pre |-> NotPreprocessed, raised |-> "none",
     predictions |-> <<>>, status |-> 0, body |-> NoContent, capOpen |-> FALSE]

InitUpload ==
    /\ up \in {UploadRequest(TranslateImage, i, <<>>) : i \in Images}
           \cup {UploadRequest(AppImage, i, <<>>) : i \in Images}
           \cup {UploadRequest(Video, "none", v) : v \in Videos}
    /\ infCalls = <<>>
    /\ tmpFiles = {}
    /\ CropIdle /\ WsIdle /\ DbIdle /\ AuthIdle /\ SessIdle
    /\ TrackIdle /\ PreIdle

Finished(response, raised) ==
    [up EXCEPT !.pc = "done", !.status = response.status,
               !.body = response.body, !.raised = raised]

\* preprocess_with_mediapipe(image_path) on the image stored at image_path:
\* the path it returns, what it caught, and the files it wrote
preprocess_with_mediapipe(image_path, image, crop_write, overlay_write) ==
    LET cropped_path == ReplaceJpg(image_path, "tmp_cropped")
        overlay_path == ReplaceJpg(image_path, "tmp_overlay")
        Returns(path, hand, written, caught, files) ==
            [returned |-> path, hand |-> hand, written |-> written,
             caught |-> caught, files |-> files]
        crop_files == IF crop_write = "written" THEN {cropped_path} ELSE {}
        overlay_files == IF overlay_write = "written" THEN {overlay_path} ELSE {}
    IN  IF image = "undecodable"
        THEN \* cv2.imread returns None and cv2.cvtColor raises
             Returns(image_path, FALSE, FALSE, "cvtColor", {})
        ELSE IF image = "no_hand"
        THEN Returns(image_path, FALSE, FALSE, "none", {})
        ELSE IF image = "hand_empty_crop" \/ crop_write = "raises"
        THEN \* cv2.imwrite raises for an empty image
             Returns(image_path, TRUE, FALSE, "imwrite", {})
        ELSE IF overlay_write = "raises"
        THEN Returns(image_path, TRUE, crop_write = "written", "overlay", crop_files)
        ELSE Returns(cropped_path, TRUE, crop_write = "written", "none",
                     crop_files \cup overlay_files)

\* translate_image.predict_image: NamedTemporaryFile, tmp_file.write(await file.read())
predict_image_save ==
    /\ up.endpoint = TranslateImage
    /\ up.pc = "save"
    /\ tmpFiles' = tmpFiles \cup {temp_path}
    /\ \E read \in ReadOutcomes :
         up' = IF read = "raises"
               THEN Finished(ErrorResponse("file.read"), "file.read")
               ELSE [up EXCEPT !.pc = "preprocess"]
    /\ UNCHANGED <<infCalls, cropVars, wsVars, dbVars, authVars, sessVars, moreVars>>

\* translate_image.predict_image: cropped_path = preprocess_with_mediapipe(temp_path)
predict_image_preprocess ==
    /\ up.endpoint = TranslateImage
    /\ up.pc = "preprocess"
    /\ \E crop_write \in ImwriteOutcomes, overlay_write \in ImwriteOutcomes :
         LET r == preprocess_with_mediapipe(temp_path, up.image, crop_write,
                                            overlay_write)
         IN  /\ tmpFiles' = tmpFiles \cup r.files
             /\ up' = [up EXCEPT !.pc = "inference",
                         !.pre = [returned |-> r.returned, hand |-> r.hand,
                                  written |-> r.written, caught |-> r.caught,
                                  exists |-> r.returned \in tmpFiles']]
    /\ UNCHANGED <<infCalls, cropVars, wsVars, dbVars, authVars, sessVars, moreVars>>

\* translate_image.predict_image: client.run_workflow, the cleanup, the response
predict_image_inference ==
    /\ up.endpoint = TranslateImage
    /\ up.pc = "inference"
    /\ infCalls' = Append(infCalls, up.pre.returned)
    /\ \E result \in PredictOutcomes :
         IF result = "raises" \/ up.pre.returned \notin tmpFiles
         THEN /\ up' = Finished(ErrorResponse("run_workflow"), "run_workflow")
              /\ UNCHANGED tmpFiles
         ELSE /\ up' = Finished(OkResponse("result"), "none")
              /\ tmpFiles' = tmpFiles \ {temp_path, up.pre.returned}
    /\ UNCHANGED <<cropVars, wsVars, dbVars, authVars, sessVars, moreVars>>

\* app.predict_image: file.read, Image.open, preprocess_image, model.predict
app_predict_image ==
    /\ up.endpoint = AppImage
    /\ up.pc = "save"
    /\ \E read \in ReadOutcomes, preds \in PredictOutcomes :
         up' = IF read = "raises"
               THEN Finished(ErrorResponse("file.read"), "file.read")
               ELSE IF up.image = "undecodable"
               THEN Finished(ErrorResponse("Image.open"), "Image.open")
               ELSE IF preds = "raises"
               THEN Finished(ErrorResponse("model.predict"), "model.predict")
               ELSE Finished(OkResponse("prediction"), "none")
    /\ UNCHANGED <<infCalls, tmpFiles, cropVars, wsVars, dbVars, authVars, sessVars, moreVars>>

\* the result of the inference call for a frame
ResultOf(content) == [of |-> content]

AppendResultMutPrepend(predictions, result) == <<result>> \o predictions

\* predictions.append(result)
AppendResult(predictions, result) == Append(predictions, result)

\* predict_video: NamedTemporaryFile(suffix=".mp4"), tmp_file.write(await
\* file.read()), cv2.VideoCapture(video_path), predictions = []
predict_video_save ==
    /\ up.endpoint = Video
    /\ up.pc = "save"
    /\ tmpFiles' = tmpFiles \cup {video_path}
    /\ \E read \in ReadOutcomes :
         up' = IF read = "raises"
               THEN Finished(ErrorResponse("file.read"), "file.read")
               ELSE [up EXCEPT !.pc = "frames", !.capOpen = TRUE]
    /\ UNCHANGED <<infCalls, cropVars, wsVars, dbVars, authVars, sessVars, moreVars>>

\* predict_video, one turn of the loop in which cap.read() gives a frame:
\* the frame is written to a temporary image, sent to run_workflow, the
\* result appended and the temporary image removed
predict_video_frame ==
    /\ up.endpoint = Video
    /\ up.pc = "frames"
    /\ up.read < Len(up.video)
    /\ LET i == up.read + 1
       IN  \E frame_write \in ImwriteOutcomes, result \in PredictOutcomes :
             IF frame_write = "raises"
             THEN /\ up' = [Finished(ErrorResponse("imwrite"), "imwrite")
                               EXCEPT !.read = i]
                  /\ tmpFiles' = tmpFiles \cup {frame_path(i)}
                  /\ UNCHANGED infCalls
             ELSE /\ infCalls' = Append(infCalls, frame_path(i))
                  /\ IF result = "raises" \/ frame_write = "false"
                     THEN \* an image file left empty cannot be loaded
                          /\ up' = [Finished(ErrorResponse("run_workflow"),
                                             "run_workflow") EXCEPT !.read = i]
                          /\ tmpFiles' = tmpFiles \cup {frame_path(i)}
                     ELSE /\ up' = [up EXCEPT !.read = i,
                                      !.predictions =
                                          AppendResult(up.predictions,
                                                       ResultOf(up.video[i]))]
                          /\ UNCHANGED tmpFiles
    /\ UNCHANGED <<cropVars, wsVars, dbVars, authVars, sessVars, moreVars>>

\* predict_video, cap.read() gives no frame: break, cap.release(),
\* os.remove(video_path), return {"predictions": predictions}
predict_video_finish ==
    /\ up.endpoint = Video
    /\ up.pc = "frames"
    /\ up.read = Len(up.video)
    /\ up' = [Finished(OkResponse("predictions"), "none") EXCEPT !.capOpen = FALSE]
    /\ tmpFiles' = tmpFiles \ {video_path}
    /\ UNCHANGED <<infCalls, cropVars, wsVars, dbVars, authVars, sessVars, moreVars>>

NextUpload ==
    \/ predict_image_save
    \/ predict_image_preprocess
    \/ predict_image_inference
    \/ app_predict_image
    \/ predict_video_save
    \/ predict_video_frame
    \/ predict_video_finish

SpecUpload == InitUpload /\ [][NextUpload]_vars

----------------------------------------------------------------------------
(* Claims about the upload endpoints *)

\* preprocess_with_mediapipe has returned in translate_image.predict_image
Preprocessed == up.endpoint = TranslateImage /\ up.pre # NotPreprocessed

\* C16: an image upload in which no hand is detected is answered 404 and
\* no inference call is made for it.
C16_NoHandNotFound ==
    (Preprocessed /\ ~up.pre.hand /\ up.pre.caught = "none") =>
        /\ infCalls = <<>>
        /\ (up.pc = "done") => (up.status = 404)

\* C17: preprocess_with_mediapipe returns the cropped path when a hand is
\* detected and the crop is written, the original path when no hand is
\* detected or a step fails, and the path returned names a file that exists.
C17_PreprocessReturnsUsablePath ==
    Preprocessed =>
        /\ (up.pre.hand /\ up.pre.written /\ up.pre.caught = "none")
              => (up.pre.returned = ReplaceJpg(temp_path, "tmp_cropped"))
        /\ (~up.pre.hand \/ ~up.pre.written \/ up.pre.caught # "none")
              => (up.pre.returned = temp_path)
        /\ up.pre.exists

\* the exceptions raised while the request was handled
RaisedInRequest == {up.raised, up.pre.caught} \ {"none"}

\* C18 as stated: any exception raised while an upload is handled,
\* preprocessing included, gives 500 with the exception's message.
C18_AnyExceptionIs500 ==
    (up.pc = "done" /\ RaisedInRequest # {}) =>
        /\ up.status = 500
        /\ up.body.kind = "error"
        /\ up.body.value \in RaisedInRequest

\* C18: an exception raised in the body of predict_image or predict_video
\* (file read, decoding, frame write, inference call) is answered 500 with
\* {"error": <its message>}; an exception caught inside
\* preprocess_with_mediapipe is not: without a later exception the answer
\* is 200.
C18_HandlerExceptionIs500 ==
    (up.pc = "done") =>
        /\ (up.raised # "none") =>
              (up.status = 500 /\ up.body = [kind |-> "error", value |-> up.raised])
        /\ (up.raised = "none") => (up.status = 200 /\ up.body.kind # "error")

\* C18 witness: preprocessing caught an exception, then run_workflow raised
\* and the request was answered 500 with the message of run_workflow.
C18_Witness ==
    /\ up.endpoint = TranslateImage
    /\ up.pc = "done"
    /\ up.pre.caught # "none"
    /\ up.raised = "run_workflow"
    /\ up.status = 500
    /\ up.body.value = "run_workflow"

\* C19: a successful predict_video returns one result per frame of the
\* video, in frame order, from one inference call per frame.
C19_OneResultPerFrame ==
    (up.endpoint = Video /\ up.pc = "done" /\ up.status = 200) =>
        /\ Len(up.predictions) = Len(up.video)
        /\ \A i \in 1 .. Len(up.video) : up.predictions[i] = ResultOf(up.video[i])
        /\ infCalls = [i \in 1 .. Len(up.video) |-> frame_path(i)]

\* C19 witness: a video of MaxFrames frames, the first two different, was
\* answered 200.
C19_Witness ==
    /\ up.endpoint = Video /\ up.pc = "done" /\ up.status = 200
    /\ Len(up.video) = MaxFrames
    /\ up.video[1] # up.video[2]
    /\ Len(up.predictions) = MaxFrames

----------------------------------------------------------------------------
(* get_db: database.py *)

\* number of requests that depend on get_db
MaxRequests == 3

Requests == 1 .. MaxRequests

\* how the handler of a request ends: it returns, raises HTTPException
\* (400, 401, 404) or raises another exception (IntegrityError at commit)
HandlerOutcomes == {"return", "HTTPException", "Exception"}

NewRequest == [pc |-> "new", db |-> 0, outcome |-> "none"]

FinallyMutOnReturnOnly(outcome) == outcome = "return"

\* `try: yield db / finally: db.close()`: the outcomes of the handler for
\* which db.close() runs
Finally(outcome) == TRUE

InitGetDb ==
    /\ dbReq = [r \in Requests |-> NewRequest]
    /\ sessionOpen = {}
    /\ created = 0
    /\ CropIdle /\ WsIdle /\ DbIdle /\ AuthIdle /\ UpIdle
    /\ TrackIdle /\ PreIdle

\* db = SessionLocal(); yield db
get_db_open(r) ==
    /\ dbReq[r].pc = "new"
    /\ created' = created + 1
    /\ sessionOpen' = sessionOpen \cup {created'}
    /\ dbReq' = [dbReq EXCEPT ![r] = [pc |-> "handler", db |-> created',
                                      outcome |-> "none"]]
    /\ UNCHANGED <<cropVars, wsVars, dbVars, authVars, upVars, moreVars>>

\* the endpoint function that received db returns or raises
handler_ends(r) ==
    /\ dbReq[r].pc = "handler"
    /\ \E outcome \in HandlerOutcomes :
         dbReq' = [dbReq EXCEPT ![r].pc = "finally", ![r].outcome = outcome]
    /\ UNCHANGED <<sessionOpen, created, cropVars, wsVars, dbVars, authVars, upVars, moreVars>>

\* the generator is resumed or thrown into: finally: db.close()
get_db_finally(r) ==
    /\ dbReq[r].pc = "finally"
    /\ sessionOpen' = IF Finally(dbReq[r].outcome)
                      THEN sessionOpen \ {dbReq[r].db}
                      ELSE sessionOpen
    /\ dbReq' = [dbReq EXCEPT ![r].pc = "ended"]
    /\ UNCHANGED <<created, cropVars, wsVars, dbVars, authVars, upVars, moreVars>>

NextGetDb ==
    \E r \in Requests :
        \/ get_db_open(r)
        \/ handler_ends(r)
        \/ get_db_finally(r)

SpecGetDb == InitGetDb /\ [][NextGetDb]_vars

\* C20: the session get_db opened for a request is closed once the request
\* has ended, however its handler ended; requests never share a session;
\* the sessions open are those of the requests in progress.
C20_SessionPerRequestClosed ==
    /\ \A r \in Requests :
         (dbReq[r].pc = "ended") => (dbReq[r].db \notin sessionOpen)
    /\ \A r1, r2 \in Requests :
         (r1 # r2 /\ dbReq[r1].pc # "new" /\ dbReq[r2].pc # "new")
            => (dbReq[r1].db # dbReq[r2].db)
    /\ sessionOpen =
         {dbReq[r].db : r \in {q \in Requests : dbReq[q].pc \in {"handler", "finally"}}}

\* C20 witness: one request ended by an HTTPException and one by another
\* exception, while a third is still in its handler with its session open.
C20_Witness ==
    \E r1, r2, r3 \in Requests :
        /\ dbReq[r1].pc = "ended" /\ dbReq[r1].outcome = "HTTPException"
        /\ dbReq[r2].pc = "ended" /\ dbReq[r2].outcome = "Exception"
        /\ dbReq[r3].pc = "handler" /\ dbReq[r3].db \in sessionOpen

----------------------------------------------------------------------------
(* the module-level `hands` of routers/translate_webcam.py and            *)
(* translate_webcam.py, used by every /webcam/ws connection               *)

Connections == {"c1", "c2"}

\* where the hand is in a frame
HandPositions == {"left", "center", "right"}
NoHand == "none"
\* a frame, by the hand it shows
TrackFrames == {NoHand} \cup HandPositions

\* what a detector that has processed no frame reports for the frame
Detect(frame) == frame

\* hands.process(frame) with static_image_mode=False, given the hand the
\* detector tracks from the frames processed before: with nothing tracked
\* the frame is searched for a hand; while a hand is tracked the landmarks
\* are looked for where that hand was, and a hand that is elsewhere may be
\* found or lost
HandsProcess(tracked, frame) ==
    IF tracked = NoHand \/ frame = tracked \/ frame = NoHand
    THEN {Detect(frame)}
    ELSE {Detect(frame), NoHand}

\* the prediction replied for what was detected
PredictionFor(detected) == IF detected = NoHand THEN "null" ELSE detected

NoFrameYet == [n |-> 0, frame |-> NoHand, detected |-> NoHand,
               prediction |-> "null"]

InitTracker ==
    /\ hands = NoHand
    /\ conn = [c \in Connections |-> NoFrameYet]
    /\ CropIdle /\ WsIdle /\ DbIdle /\ AuthIdle /\ UpIdle /\ SessIdle /\ PreIdle

\* websocket_endpoint on connection c handles one decoded frame:
\* hands.process, the crop, the inference call and the two replies
websocket_frame(c) ==
    /\ conn[c].n < MaxMsgs
    /\ \E frame \in TrackFrames :
         \E detected \in HandsProcess(hands, frame) :
            /\ hands' = detected
            /\ conn' = [conn EXCEPT ![c] =
                 [n |-> conn[c].n + 1, frame |-> frame, detected |-> detected,
                  prediction |-> PredictionFor(detected)]]
    /\ UNCHANGED <<cropVars, wsVars, dbVars, authVars, upVars, sessVars, preVars>>

NextTracker == \E c \in Connections : websocket_frame(c)

SpecTracker == InitTracker /\ [][NextTracker]_vars

\* C21: the crop and the prediction replied for a frame depend on that
\* frame only: they are what a detector that processed no other frame
\* gives, whatever was processed before on this or on another connection.
C21_ReplyDependsOnFrameOnly ==
    \A c \in Connections :
        (conn[c].n > 0) =>
            /\ conn[c].detected = Detect(conn[c].frame)
            /\ conn[c].prediction = PredictionFor(Detect(conn[c].frame))

----------------------------------------------------------------------------
(* Further claims about /webcam/ws *)

LastReply == outbox[Len(outbox)]

\* C22: for a frame that gave no hand region (no hand, or a degenerate
\* box) no inference call is made, the JSON reply is {"prediction": null}
\* and the handler goes on: it ends only when the client has disconnected.
\* The inference call is made for frames with a region only.
C22_NoRegionNoInference ==
    /\ (cur.kind = "frame" /\ cur.region = "None") =>
          /\ cur.calls = 0
          /\ ~cur.raised /\ ~cur.errlog
          /\ cur.prediction = "null"
          /\ pc \in {"send_bytes", "send_json", "receive", "returned"}
          /\ (pc = "returned") => (clientClosed /\ exc = "WebSocketDisconnect")
          /\ (cur.replies = BothReplies) =>
                (LastReply = [type |-> "json", n |-> cur.n, prediction |-> "null"])
    /\ (cur.kind = "frame" /\ cur.calls > 0) =>
          /\ cur.region = "crop"
          /\ HandRegion(variant, cur.frame).kind = "crop"

\* C22 witness: a frame with a detected hand and a degenerate box was
\* answered with both replies and the handler is receiving again.
C22_Witness ==
    /\ cur.kind = "frame"
    /\ cur.frame.lm # {}
    /\ cur.region = "None"
    /\ cur.replies = BothReplies
    /\ pc = "receive"
    /\ ~clientClosed

\* C23: a text message that is not a valid image frame is skipped: nothing
\* is sent for it, no exception leaves the handler, and the handler stays
\* in its loop (it ends only when the client has disconnected).
C23_InvalidMessageSkipped ==
    (cur.kind \in {"text", "no_comma", "bad_base64", "not_image"}) =>
        /\ cur.replies = <<>>
        /\ cur.calls = 0
        /\ pc \in {"receive", "returned"}
        /\ (pc = "returned") => (clientClosed /\ exc = "WebSocketDisconnect")

\* the replies come in pairs, binary then JSON for the same message, in the
\* order the messages were received, none answered twice, and no reply is
\* for a message received later than the one being handled
RepliesInOrder ==
    /\ \A k \in 1 .. Len(outbox) :
         /\ outbox[k].type = (IF k % 2 = 1 THEN "bytes" ELSE "json")
         /\ (k % 2 = 0) => (outbox[k].n = outbox[k - 1].n)
         /\ (k > 2 /\ k % 2 = 1) => (outbox[k].n > outbox[k - 2].n)
         /\ outbox[k].n <= cur.n
    /\ (pc = "receive") => (Len(outbox) % 2 = 0)
    /\ (pc = "send_json") =>
          (Len(outbox) % 2 = 1 /\ LastReply.n = cur.n)

\* C24: the handler is a strict request/response loop: both replies for a
\* frame are sent before the next message is received, replies follow the
\* order of the frames, and no frame taken from the connection is dropped
\* or answered twice while the client is connected.
C24_StrictRequestResponse ==
    /\ RepliesInOrder
    /\ (FrameFinished /\ ~clientClosed) =>
          /\ cur.replies = BothReplies
          /\ Len(outbox) >= 2
          /\ LastReply.n = cur.n

----------------------------------------------------------------------------
(* the crop box of preprocess_with_mediapipe: translate_image.py *)

\* x_min, y_min = max(int(x_min), 0), max(int(y_min), 0)
\* x_max, y_max = min(int(x_max), w), min(int(y_max), h)
ClampToImage(b, w, h) ==
    [x_min |-> Max2(b.x_min, 0),
     y_min |-> Max2(b.y_min, 0),
     x_max |-> Min2(b.x_max, w),
     y_max |-> Min2(b.y_max, h)]

\* an index of a slice a[start:stop] over n elements: a negative index
\* counts from the end, and the result is clipped to 0 .. n
SliceIndex(i, n) == IF i < 0 THEN Max2(i + n, 0) ELSE Min2(i, n)

\* the elements lo .. hi - 1
Interval(lo, hi) == IF hi <= lo THEN [lo |-> 0, hi |-> 0] ELSE [lo |-> lo, hi |-> hi]

NoSlice == [cols |-> Interval(0, 0), rows |-> Interval(0, 0)]

\* the pixels of the given columns and rows: none when either is empty
Pixels(cols, rows) ==
    IF cols.hi = 0 \/ rows.hi = 0 THEN NoSlice ELSE [cols |-> cols, rows |-> rows]

\* image[y_min:y_max, x_min:x_max]: the columns and the rows taken
CroppedSlice(b, w, h) ==
    Pixels(Interval(SliceIndex(b.x_min, w), SliceIndex(b.x_max, w)),
           Interval(SliceIndex(b.y_min, h), SliceIndex(b.y_max, h)))

InitPreprocess ==
    /\ preImage \in Frames
    /\ preCrop = [pc |-> "call", box |-> ZeroBox, slice |-> NoSlice]
    /\ CropIdle /\ WsIdle /\ DbIdle /\ AuthIdle /\ UpIdle /\ SessIdle /\ TrackIdle

\* `if not results.multi_hand_landmarks: return image_path`
PreprocessNoHand ==
    /\ preCrop.pc = "call"
    /\ NoHandDetected(preImage.lm)
    /\ preCrop' = [pc |-> "original", box |-> ZeroBox, slice |-> NoSlice]
    /\ UNCHANGED <<preImage, cropVars, wsVars, dbVars, authVars, upVars, sessVars,
                   trackVars>>

\* the box from the landmarks and `cropped = image[y_min:y_max, x_min:x_max]`
PreprocessCrop ==
    /\ preCrop.pc = "call"
    /\ ~NoHandDetected(preImage.lm)
    /\ LET b == ClampToImage(LandmarkBox(preImage), preImage.w, preImage.h)
       IN  preCrop' = [pc |-> "cropped", box |-> b,
                       slice |-> CroppedSlice(b, preImage.w, preImage.h)]
    /\ UNCHANGED <<preImage, cropVars, wsVars, dbVars, authVars, upVars, sessVars,
                   trackVars>>

NextPreprocess == PreprocessNoHand \/ PreprocessCrop

SpecPreprocess == InitPreprocess /\ [][NextPreprocess]_vars

\* the landmark extent intersected with the image, as columns and rows
ExtentInImage(image) ==
    LET e == LandmarkBox(image)
    IN  Pixels(Interval(Max2(e.x_min, 0), Min2(e.x_max, image.w)),
               Interval(Max2(e.y_min, 0), Min2(e.y_max, image.h)))

\* C25: in preprocess_with_mediapipe the crop coordinates satisfy
\* 0 <= x_min <= x_max <= w and 0 <= y_min <= y_max <= h for all landmark
\* positions, and the slice taken is the landmark extent intersected with
\* the image.
C25_PreprocessBoxClamped ==
    (preCrop.pc = "cropped") =>
        /\ 0 <= preCrop.box.x_min /\ preCrop.box.x_min <= preCrop.box.x_max
        /\ preCrop.box.x_max <= preImage.w
        /\ 0 <= preCrop.box.y_min /\ preCrop.box.y_min <= preCrop.box.y_max
        /\ preCrop.box.y_max <= preImage.h
        /\ preCrop.slice = ExtentInImage(preImage)

----------------------------------------------------------------------------
(* Further claims about the upload endpoints *)

\* C26: when predict_image or predict_video has returned, with 200 or with
\* 500, the temporary files of the request are deleted, except possibly
\* the debug overlay, and the video capture is released.
C26_TempFilesDeleted ==
    (up.pc = "done" /\ up.endpoint \in {TranslateImage, Video}) =>
        /\ tmpFiles \subseteq {ReplaceJpg(temp_path, "tmp_overlay")}
        /\ ~up.capOpen

----------------------------------------------------------------------------
(* Further claims about /settings *)

\* the step in which session s, whose POST /settings/ passed the existence
\* query, commits after another request has stored a row for the same user
LateCommit(s) ==
    /\ req[s].pc = "commit"
    /\ req[s].op = "post"
    /\ RowsOf(req[s].user_id) # {}
    /\ req'[s].pc = "done"

\* C27: of two POST /settings/ requests for one user that both ran the
\* existence query before either committed, the one that commits second is
\* answered 400 and exactly one row for the user exists afterwards.
C27_RacingPostAnswered400 ==
    [][\A s \in Sessions :
          LateCommit(s) =>
              /\ req'[s].status = 400
              /\ Cardinality({r \in USER_SETTINGS' : r.USER_ID = req[s].user_id}) = 1]_vars

----------------------------------------------------------------------------
(* crud.py: create_or_update_settings *)

UserExistsMutAlways(u) == TRUE

\* db.query(UserInformation).filter(UserInformation.USER_ID == user_id).first()
UserExists(u) == u \in ExistingUsers

CrudCall(step, u, speech, webcam, found) ==
    [IdleRequest EXCEPT !.pc = step, !.op = "create_or_update_settings",
                        !.user_id = u, !.speech_enabled = speech,
                        !.webcam_enabled = webcam, !.found = found]

InitCrud ==
    /\ USER_SETTINGS = {}
    /\ req = [s \in Sessions |-> IdleRequest]
    /\ lastWrite = [u \in RequestUserIds |-> NeverWritten]
    /\ CropIdle /\ WsIdle /\ AuthIdle /\ UpIdle /\ SessIdle /\ TrackIdle /\ PreIdle

\* create_or_update_settings: the user query (ValueError when there is no
\* user), the settings query, and the assignments or db.add
crud_query(s) ==
    /\ req[s].pc = "idle"
    /\ \E u \in RequestUserIds, speech \in BOOLEAN, webcam \in BOOLEAN :
         req' = [req EXCEPT ![s] =
                   IF ~UserExists(u)
                   THEN CrudCall("ValueError", u, speech, webcam, 0)
                   ELSE CrudCall("commit", u, speech, webcam, QueryFirst(u).ID)]
    /\ UNCHANGED <<USER_SETTINGS, lastWrite, cropVars, wsVars, extVars>>

\* create_or_update_settings: db.commit(), db.refresh(settings), return
crud_commit(s) ==
    /\ req[s].pc = "commit"
    /\ req[s].op = "create_or_update_settings"
    /\ LET r == req[s]
           new == NewRow(r)
       IN  IF r.found # 0
           THEN LET old == CHOOSE x \in USER_SETTINGS : x.ID = r.found
                IN  /\ USER_SETTINGS' = (USER_SETTINGS \ {old}) \cup
                           {UpdatedRow(old, r.speech_enabled, r.webcam_enabled)}
                    /\ req' = [req EXCEPT ![s].pc = "returned"]
           ELSE IF InsertRejected(new)
           THEN /\ req' = [req EXCEPT ![s].pc = "IntegrityError"]
                /\ UNCHANGED USER_SETTINGS
           ELSE /\ USER_SETTINGS' = USER_SETTINGS \cup {new}
                /\ req' = [req EXCEPT ![s].pc = "returned"]
    /\ UNCHANGED <<lastWrite, cropVars, wsVars, extVars>>

\* the caller gets the row or the exception; its session can be used again
crud_done(s) ==
    /\ req[s].pc \in {"returned", "ValueError", "IntegrityError"}
    /\ req' = [req EXCEPT ![s] = IdleRequest]
    /\ UNCHANGED <<USER_SETTINGS, lastWrite, cropVars, wsVars, extVars>>

NextCrud ==
    \E s \in Sessions :
        \/ crud_query(s)
        \/ crud_commit(s)
        \/ crud_done(s)

SpecCrud == InitCrud /\ [][NextCrud]_vars

\* the step in which create_or_update_settings is called for a user_id
\* without a user record
CallForUnknownUser(s) ==
    /\ req[s].pc = "idle"
    /\ req'[s].op = "create_or_update_settings"
    /\ req'[s].user_id \notin ExistingUsers

\* C28: create_or_update_settings called for a user_id without a user
\* record raises ValueError and leaves the settings table unchanged; every
\* settings row references an existing user.
C28_NoOrphanSettings ==
    /\ [](\A r \in USER_SETTINGS : r.USER_ID \in ExistingUsers)
    /\ [][\A s \in Sessions :
             CallForUnknownUser(s) =>
                 /\ req'[s].pc = "ValueError"
                 /\ USER_SETTINGS' = USER_SETTINGS]_vars

\* C28 witness: a call for an unknown user raised ValueError when the table
\* held a row, which references the existing user.
C28_Witness ==
    /\ USER_SETTINGS # {}
    /\ \E s \in Sessions :
         /\ req[s].pc = "ValueError"
         /\ req[s].user_id \notin ExistingUsers

----------------------------------------------------------------------------
(* Further claims about the extraction *)

\* every landmark has normalized coordinates in [0, 1]
LandmarksInFrame ==
    \A p \in cropFrame.lm : p[1] \in 0 .. LmDen /\ p[2] \in 0 .. LmDen

\* int(l.x * w) and int(l.y * h) of the landmark p
PixelX(p) == IntTrunc(p[1] * cropFrame.w, LmDen)
PixelY(p) == IntTrunc(p[2] * cropFrame.h, LmDen)

\* C29: a crop returned for landmarks that all lie in [0, 1] has
\* 0 <= x_min < x_max <= w and 0 <= y_min < y_max <= h, contains the pixel
\* position of every landmark within its closed coordinate range, and
\* extends at most 20 pixels beyond the landmark extent on each side.
C29_CropContainsLandmarks ==
    (CropReturned /\ LandmarksInFrame) =>
        LET b == cropOut.box
        IN  /\ 0 <= b.x_min /\ b.x_min < b.x_max /\ b.x_max <= cropFrame.w
            /\ 0 <= b.y_min /\ b.y_min < b.y_max /\ b.y_max <= cropFrame.h
            /\ \A p \in cropFrame.lm :
                 /\ b.x_min <= PixelX(p) /\ PixelX(p) <= b.x_max
                 /\ b.y_min <= PixelY(p) /\ PixelY(p) <= b.y_max
            /\ \E p \in cropFrame.lm : b.x_min >= PixelX(p) - 20
            /\ \E p \in cropFrame.lm : b.x_max <= PixelX(p) + 20
            /\ \E p \in cropFrame.lm : b.y_min >= PixelY(p) - 20
            /\ \E p \in cropFrame.lm : b.y_max <= PixelY(p) + 20

\* C29 witness: a hand of two landmarks more than 20 pixels apart, one of
\* them on the right edge (x = 1.0), cropped to a box that ends at the frame
\* width and starts inside the frame.
C29_Witness ==
    /\ CropReturned
    /\ LandmarksInFrame
    /\ Cardinality(cropFrame.lm) = 2
    /\ \E p \in cropFrame.lm : p[1] = LmDen
    /\ \E p, q \in cropFrame.lm : PixelX(q) - PixelX(p) > 20
    /\ cropOut.box.x_max = cropFrame.w
    /\ cropOut.box.x_min > 0

====
